---- MODULE Spec2Model ----
(***************************************************************************)
(* Model of version-sort (src/main.rs): Version::parse, parse_part,        *)
(* VersionPart, Version::cmp and the read / sort / print pipeline of main. *)
(*                                                                         *)
(* Strings are sequences of ASCII codes ('0' = 48, 'a' = 97, ...), so that *)
(* lowercasing, splitting, digit scanning and the byte-wise ordering of    *)
(* String are computed as the code computes them.  An i64 is a sign and a  *)
(* magnitude in decimal digits without leading zeros, so that the range    *)
(* check of str::parse::<i64> is modelled at its true width.               *)
(***************************************************************************)
EXTENDS Integers, Sequences, FiniteSets, TLC

VARIABLES input, versions, output, pc

vars == <<input, versions, output, pc>>

----------------------------------------------------------------------------
(* Bounds of the explored inputs.                                          *)

MaxLines == 3
MaxPartLen == 4
MaxBaseTokens == 2
MaxCtx == 1

----------------------------------------------------------------------------
(* Characters and string literals of the source.                           *)

IsAsciiDigit(c) == c >= 48 /\ c <= 57

IsSeparator(c) == c = 61 \/ c = 46 \/ c = 95

Str_snapshot == <<115, 110, 97, 112, 115, 104, 111, 116>>
Str_alpha == <<97, 108, 112, 104, 97>>
Str_beta == <<98, 101, 116, 97>>
Str_rc == <<114, 99>>
Str_cr == <<99, 114>>

ToLowercaseChar(c) == IF c >= 65 /\ c <= 90 THEN c + 32 ELSE c

ToLowercase(s) == [i \in 1..Len(s) |-> ToLowercaseChar(s[i])]

----------------------------------------------------------------------------
(* Ordering: the three values of std::cmp::Ordering.                       *)

Reverse(o) == IF o = "LT" THEN "GT" ELSE IF o = "GT" THEN "LT" ELSE "EQ"

CmpNat(x, y) == IF x < y THEN "LT" ELSE IF x > y THEN "GT" ELSE "EQ"

RECURSIVE CmpSeqFrom(_, _, _)
CmpSeqFrom(x, y, i) ==
    IF i > Len(x) /\ i > Len(y) THEN "EQ"
    ELSE IF i > Len(x) THEN "LT"
    ELSE IF i > Len(y) THEN "GT"
    ELSE IF x[i] # y[i] THEN CmpNat(x[i], y[i])
    ELSE CmpSeqFrom(x, y, i + 1)

(* Ord for String: lexicographic on bytes. *)
CmpStr(x, y) == CmpSeqFrom(x, y, 1)

----------------------------------------------------------------------------
(* i64: [neg, mag], mag the decimal digits of |n| without leading zeros    *)
(* (<<>> for zero).                                                        *)

I64MaxMag == <<9, 2, 2, 3, 3, 7, 2, 0, 3, 6, 8, 5, 4, 7, 7, 5, 8, 0, 7>>

(* Mutant: magnitudes compared as text, digit by digit from the left. *)
CmpMag_Lexical(x, y) == CmpSeqFrom(x, y, 1)

CmpMag(x, y) ==
    IF Len(x) # Len(y) THEN CmpNat(Len(x), Len(y)) ELSE CmpSeqFrom(x, y, 1)

(* An i64 literal of the source, -9 .. 9. *)
I64Lit(k) ==
    [neg |-> k < 0,
     mag |-> IF k = 0 THEN <<>> ELSE IF k < 0 THEN <<0 - k>> ELSE <<k>>]

CmpI64(a, b) ==
    IF a.neg /\ ~b.neg THEN "LT"
    ELSE IF ~a.neg /\ b.neg THEN "GT"
    ELSE IF a.neg THEN CmpMag(b.mag, a.mag)
    ELSE CmpMag(a.mag, b.mag)

(* str::parse::<i64> on a non-empty run of ASCII digits: the accumulator   *)
(* is multiplied by ten and the digit added, each step checked against     *)
(* i64::MAX; the result is Err on overflow.                                *)
RECURSIVE ParseMagFrom(_, _, _)
ParseMagFrom(ds, i, acc) ==
    IF i > Len(ds) THEN [ok |-> TRUE, mag |-> acc]
    ELSE LET d == ds[i] - 48
             next == IF acc = <<>> /\ d = 0 THEN <<>> ELSE Append(acc, d)
         IN  IF CmpMag(next, I64MaxMag) = "GT"
             THEN [ok |-> FALSE, mag |-> <<>>]
             ELSE ParseMagFrom(ds, i + 1, next)

ParseI64(ds) ==
    LET r == ParseMagFrom(ds, 1, <<>>)
    IN  [ok |-> r.ok, val |-> [neg |-> FALSE, mag |-> r.mag]]

----------------------------------------------------------------------------
(* VersionPart { n: i64, q: String }                                       *)

Default == [n |-> I64Lit(0), q |-> <<>>]

NewNumber(n) == [n |-> n, q |-> <<>>]

(* Mutant: an unknown qualifier ranked above the release, 1 for -1. *)
NewQualifier_UnknownPositive(q) ==
    [n |-> IF q = Str_snapshot THEN I64Lit(-5)
           ELSE IF q = Str_alpha THEN I64Lit(-4)
           ELSE IF q = Str_beta THEN I64Lit(-3)
           ELSE IF q = Str_rc THEN I64Lit(-2)
           ELSE IF q = Str_cr THEN I64Lit(-2)
           ELSE I64Lit(1),
     q |-> q]

NewQualifier(q) ==
    [n |-> IF q = Str_snapshot THEN I64Lit(-5)
           ELSE IF q = Str_alpha THEN I64Lit(-4)
           ELSE IF q = Str_beta THEN I64Lit(-3)
           ELSE IF q = Str_rc THEN I64Lit(-2)
           ELSE IF q = Str_cr THEN I64Lit(-2)
           ELSE I64Lit(-1),
     q |-> q]

(* #[derive(Ord)]: fields in declaration order, n then q. *)
CmpPart(a, b) ==
    LET o == CmpI64(a.n, b.n)
    IN  IF o # "EQ" THEN o ELSE CmpStr(a.q, b.q)

----------------------------------------------------------------------------
(* Version::parse_part                                                     *)

(* The scanning loop: suffix_start is 0 for None, else the 1-based index   *)
(* of the first digit; a non-digit after a digit resets it and breaks.     *)
RECURSIVE ScanSuffix(_, _, _)
ScanSuffix(part, i, suffix_start) ==
    IF i > Len(part) THEN suffix_start
    ELSE IF IsAsciiDigit(part[i])
         THEN ScanSuffix(part, i + 1, IF suffix_start = 0 THEN i ELSE suffix_start)
    ELSE IF suffix_start # 0 THEN 0
    ELSE ScanSuffix(part, i + 1, suffix_start)

(* Mutant: a failed parse degrades to the default value, no panic. *)
ParsePart_NoPanic(part) ==
    LET idx == ScanSuffix(part, 1, 0)
    IN  IF idx = 0
        THEN [panic |-> FALSE, qual |-> NewQualifier(part), num |-> Default]
        ELSE LET q == SubSeq(part, 1, idx - 1)
                 n == SubSeq(part, idx, Len(part))
                 r == ParseI64(n)
             IN  [panic |-> FALSE,
                  qual |-> IF q = <<>> THEN Default ELSE NewQualifier(q),
                  num |-> IF n = <<>> \/ ~r.ok THEN Default ELSE NewNumber(r.val)]

(* [panic, qual, num]: panic is the unwrap() of a failed parse. *)
ParsePart(part) ==
    LET idx == ScanSuffix(part, 1, 0)
    IN  IF idx = 0
        THEN [panic |-> FALSE, qual |-> NewQualifier(part), num |-> Default]
        ELSE LET q == SubSeq(part, 1, idx - 1)
                 n == SubSeq(part, idx, Len(part))
                 r == ParseI64(n)
             IN  [panic |-> n # <<>> /\ ~r.ok,
                  qual |-> IF q = <<>> THEN Default ELSE NewQualifier(q),
                  num |-> IF n = <<>> THEN Default ELSE NewNumber(r.val)]

----------------------------------------------------------------------------
(* Version::parse                                                          *)

(* str::split on a predicate: the pieces between separators, empty pieces  *)
(* included; the empty string yields one empty piece.                      *)
RECURSIVE SplitFrom(_, _, _)
SplitFrom(s, i, cur) ==
    IF i > Len(s) THEN <<cur>>
    ELSE IF IsSeparator(s[i]) THEN <<cur>> \o SplitFrom(s, i + 1, <<>>)
    ELSE SplitFrom(s, i + 1, Append(cur, s[i]))

Split(s) == SplitFrom(s, 1, <<>>)

RECURSIVE PartsOf(_, _)
PartsOf(tokens, i) ==
    IF i > Len(tokens) THEN [panic |-> FALSE, parts |-> <<>>]
    ELSE LET p == ParsePart(tokens[i])
         IN  IF p.panic THEN [panic |-> TRUE, parts |-> <<>>]
             ELSE LET rest == PartsOf(tokens, i + 1)
                  IN  [panic |-> rest.panic,
                       parts |-> <<p.qual, p.num>> \o rest.parts]

(* Mutant: the Version keeps the lowercased copy instead of the line. *)
Parse_KeepLower(s) ==
    LET lower == ToLowercase(s)
        r == PartsOf(Split(lower), 1)
    IN  [panic |-> r.panic, s |-> lower, parts |-> r.parts]

Parse(s) ==
    LET lower == ToLowercase(s)
        r == PartsOf(Split(lower), 1)
    IN  [panic |-> r.panic, s |-> s, parts |-> r.parts]

----------------------------------------------------------------------------
(* impl Ord for Version                                                    *)

Max(x, y) == IF x >= y THEN x ELSE y

RECURSIVE CmpFrom(_, _, _)
CmpFrom(self, other, i) ==
    IF i > Max(Len(self.parts), Len(other.parts))
    THEN CmpNat(Len(self.parts), Len(other.parts))
    ELSE LET a == IF i <= Len(self.parts) THEN self.parts[i] ELSE Default
             b == IF i <= Len(other.parts) THEN other.parts[i] ELSE Default
             ord == CmpPart(a, b)
         IN  IF ord # "EQ" THEN ord ELSE CmpFrom(self, other, i + 1)

(* Mutant: the loop runs over self's segments only. *)
RECURSIVE CmpFromSelfLen(_, _, _)
CmpFromSelfLen(self, other, i) ==
    IF i > Len(self.parts)
    THEN CmpNat(Len(self.parts), Len(other.parts))
    ELSE LET a == self.parts[i]
             b == IF i <= Len(other.parts) THEN other.parts[i] ELSE Default
             ord == CmpPart(a, b)
         IN  IF ord # "EQ" THEN ord ELSE CmpFromSelfLen(self, other, i + 1)

Cmp_SelfLenOnly(self, other) == CmpFromSelfLen(self, other, 1)

(* Mutant: no tie-break on the segment counts. *)
RECURSIVE CmpFromNoTie(_, _, _)
CmpFromNoTie(self, other, i) ==
    IF i > Max(Len(self.parts), Len(other.parts))
    THEN "EQ"
    ELSE LET a == IF i <= Len(self.parts) THEN self.parts[i] ELSE Default
             b == IF i <= Len(other.parts) THEN other.parts[i] ELSE Default
             ord == CmpPart(a, b)
         IN  IF ord # "EQ" THEN ord ELSE CmpFromNoTie(self, other, i + 1)

Cmp_NoLengthTie(self, other) == CmpFromNoTie(self, other, 1)

Cmp(self, other) == CmpFrom(self, other, 1)

(* impl PartialEq for Version *)
Eq(self, other) == Cmp(self, other) = "EQ"

(* impl Display for Version *)
Fmt(v) == v.s

----------------------------------------------------------------------------
(* versions.sort_unstable(): for slices this short the standard library   *)
(* sorts by insertion, each element shifted left while it is less than    *)
(* its left neighbour (is_less is PartialOrd::lt, that is cmp = Less).     *)

Lt(a, b) == Cmp(a, b) = "LT"

RECURSIVE InsertTail(_, _)
InsertTail(sorted, v) ==
    IF sorted = <<>> \/ ~Lt(v, sorted[Len(sorted)])
    THEN Append(sorted, v)
    ELSE Append(InsertTail(SubSeq(sorted, 1, Len(sorted) - 1), v),
                sorted[Len(sorted)])

RECURSIVE SortFrom(_, _, _)
SortFrom(vs, i, sorted) ==
    IF i > Len(vs) THEN sorted
    ELSE SortFrom(vs, i + 1, InsertTail(sorted, vs[i]))

SortUnstable(vs) == SortFrom(vs, 1, <<>>)

----------------------------------------------------------------------------
(* The inputs explored: the lines the reader yields.                       *)

SeqsUpTo(S, n) == UNION {[1..k -> S] : k \in 0..n}

RECURSIVE Join(_, _)
Join(tokens, sep) ==
    IF tokens = <<>> THEN <<>>
    ELSE IF Len(tokens) = 1 THEN tokens[1]
    ELSE tokens[1] \o <<sep>> \o Join(Tail(tokens), sep)

(* Lines of mixed shape, taken up to MaxLines at a time. *)
OrdLines ==
    {<<49>>,  \* "1"
     <<49, 46, 48>>,  \* "1.0"
     <<49, 46, 48, 46, 48>>,  \* "1.0.0"
     <<49, 46>>,  \* "1."
     <<>>,  \* ""
     <<49, 46, 114, 99>>,  \* "1.rc"
     <<49, 46, 48, 45, 66, 69, 84, 65>>,  \* "1.0-BETA"
     <<49, 46, 48, 45, 98, 101, 116, 97>>,  \* "1.0-beta"
     <<49, 95, 50, 61, 49, 48>>}  \* "1_2=10"

(* The end-to-end scenario. *)
Example ==
    <<<<50, 46, 48>>,
      <<49, 46, 48>>,
      <<49, 46, 48, 45, 98, 101, 116, 97>>,
      <<49, 46, 48, 45, 97, 108, 112, 104, 97>>,
      <<49, 46, 49, 48>>,
      <<49, 46, 50>>>>

ExampleSorted ==
    <<<<49, 46, 48, 45, 97, 108, 112, 104, 97>>,
      <<49, 46, 48, 45, 98, 101, 116, 97>>,
      <<49, 46, 48>>,
      <<49, 46, 50>>,
      <<49, 46, 49, 48>>,
      <<50, 46, 48>>>>

(* Pairs of lines that differ in one token. *)
PairQuals ==
    {<<>>,  \* ""
     <<98, 101, 116, 97>>,  \* "beta"
     <<114, 99>>,  \* "rc"
     <<102, 111, 111>>}  \* "foo"

PairNums ==
    {<<>>,  \* ""
     <<50>>,  \* "2"
     <<49, 48>>,  \* "10"
     <<48, 50>>}  \* "02"

PairTokens == {q \o d : q \in PairQuals, d \in PairNums}

PreTokens ==
    {<<49>>,  \* "1"
     <<>>}  \* ""

PostTokens ==
    {<<49>>}  \* "1"

PairInputs ==
    {<<Join(pre \o <<t1>> \o post, 46), Join(pre \o <<t2>> \o post, 46)>> :
        <<pre, post, t1, t2>> \in
            SeqsUpTo(PreTokens, MaxCtx) \X SeqsUpTo(PostTokens, MaxCtx)
                \X PairTokens \X PairTokens}

(* A base version of all-digit tokens and its hyphenated forms. *)
BaseNums ==
    {<<48>>,  \* "0"
     <<49>>,  \* "1"
     <<49, 48>>}  \* "10"

Bases == {Join(ts, 46) : ts \in SeqsUpTo(BaseNums, MaxBaseTokens) \ {<<>>}}

NamedQualifiers == {Str_snapshot, Str_alpha, Str_beta, Str_rc, Str_cr}

Hyphenated(base, q) == base \o <<45>> \o q

HyphenForms(base) == {base} \cup {Hyphenated(base, q) : q \in NamedQualifiers}

HyphenInputs ==
    {<<x, y>> : <<x, y>> \in UNION {HyphenForms(b) \X HyphenForms(b) : b \in Bases}}

(* Single tokens: every string over a small alphabet. *)
PartAlphabet == {114, 99, 49, 48, 45}  \* r c 1 0 -

PartInputs == {<<t>> : t \in SeqsUpTo(PartAlphabet, MaxPartLen)}

(* Digit runs at the edge of the i64 range. *)
EdgeLines ==
    {<<57, 50, 50, 51, 51, 55, 50, 48, 51, 54, 56, 53, 52, 55, 55, 53, 56, 48, 55>>,  \* "9223372036854775807"
     <<57, 50, 50, 51, 51, 55, 50, 48, 51, 54, 56, 53, 52, 55, 55, 53, 56, 48, 56>>,  \* "9223372036854775808"
     <<114, 99, 57, 50, 50, 51, 51, 55, 50, 48, 51, 54, 56, 53, 52, 55, 55, 53, 56, 48, 56>>,  \* "rc9223372036854775808"
     <<49, 97, 57, 57, 57, 57, 57, 57, 57, 57, 57, 57, 57, 57, 57, 57, 57, 57, 57, 57, 57, 57>>,  \* "1a99999999999999999999"
     <<48, 48, 48, 48, 48, 48, 48, 48, 48, 48, 48, 48, 48, 48, 48, 48, 48, 48, 48, 48, 49>>,  \* "000000000000000000001"
     <<49, 46, 57, 57, 57, 57, 57, 57, 57, 57, 57, 57, 57, 57, 57, 57, 57, 57, 57, 57, 57, 57>>,  \* "1.99999999999999999999"
     <<49, 46, 48>>}  \* "1.0"

EdgeInputs == EdgeLines \X EdgeLines

Inputs ==
    SeqsUpTo(OrdLines, MaxLines) \cup {Example} \cup PairInputs
        \cup HyphenInputs \cup PartInputs \cup EdgeInputs

----------------------------------------------------------------------------
(* main: collect the parsed lines, sort them, print them.                  *)

Init ==
    /\ input \in Inputs
    /\ versions = <<>>
    /\ output = <<>>
    /\ pc = "collect"

(* .map(Version::parse) on the next line, pushed by collect(). *)
ParseLine ==
    /\ pc = "collect"
    /\ Len(versions) < Len(input)
    /\ LET v == Parse(input[Len(versions) + 1])
       IN  /\ ~v.panic
           /\ versions' = Append(versions, [s |-> v.s, parts |-> v.parts])
    /\ UNCHANGED <<input, output, pc>>

(* The unwrap() in parse_part panics: the process ends. *)
ParsePanic ==
    /\ pc = "collect"
    /\ Len(versions) < Len(input)
    /\ Parse(input[Len(versions) + 1]).panic
    /\ pc' = "panicked"
    /\ UNCHANGED <<input, versions, output>>

Sort ==
    /\ pc = "collect"
    /\ Len(versions) = Len(input)
    /\ versions' = SortUnstable(versions)
    /\ pc' = "print"
    /\ UNCHANGED <<input, output>>

(* println!("{}", v) for the next v. *)
PrintLine ==
    /\ pc = "print"
    /\ Len(output) < Len(versions)
    /\ output' = Append(output, Fmt(versions[Len(output) + 1]))
    /\ UNCHANGED <<input, versions, pc>>

Exit ==
    /\ pc = "print"
    /\ Len(output) = Len(versions)
    /\ pc' = "done"
    /\ UNCHANGED <<input, versions, output>>

Next == ParseLine \/ ParsePanic \/ Sort \/ PrintLine \/ Exit

Spec == Init /\ [][Next]_vars

----------------------------------------------------------------------------
(* Vocabulary of the properties, stated apart from the code above.         *)

ZeroSegment == [n |-> I64Lit(0), q |-> <<>>]

NumberSegment(mag) == [n |-> [neg |-> FALSE, mag |-> mag], q |-> <<>>]

(* The qualifier ranking table. *)
TableRank(q) ==
    IF q = Str_snapshot THEN I64Lit(-5)
    ELSE IF q = Str_alpha THEN I64Lit(-4)
    ELSE IF q = Str_beta THEN I64Lit(-3)
    ELSE IF q \in {Str_rc, Str_cr} THEN I64Lit(-2)
    ELSE I64Lit(-1)

QualifierSegment(q) == [n |-> TableRank(q), q |-> q]

(* The tokens of a line: what lies between separators, in lower case. *)
Tokens(line) == Split(ToLowercase(line))

AllDigits(t) == t # <<>> /\ \A i \in 1..Len(t) : IsAsciiDigit(t[i])

DigitFree(t) == \A i \in 1..Len(t) : ~IsAsciiDigit(t[i])

(* The longest digit-free prefix of a token, and what follows it. *)
PrefixLen(t) ==
    IF DigitFree(t) THEN Len(t)
    ELSE (CHOOSE i \in 1..Len(t) :
              IsAsciiDigit(t[i]) /\ \A j \in 1..(i - 1) : ~IsAsciiDigit(t[j])) - 1

QualOf(t) == SubSeq(t, 1, PrefixLen(t))

NumOf(t) == SubSeq(t, PrefixLen(t) + 1, Len(t))

(* No non-digit occurs after a digit. *)
CleanSplit(t) == NumOf(t) = <<>> \/ AllDigits(NumOf(t))

(* The value of a digit run: its digits without leading zeros. *)
RECURSIVE StripZeros(_)
StripZeros(ds) ==
    IF ds # <<>> /\ ds[1] = 0 THEN StripZeros(Tail(ds)) ELSE ds

NumValue(t) == StripZeros([i \in 1..Len(t) |-> t[i] - 48])

ValueLess(x, y) ==
    \/ Len(x) < Len(y)
    \/ /\ Len(x) = Len(y)
       /\ \E i \in 1..Len(x) : x[i] < y[i] /\ \A j \in 1..(i - 1) : x[j] = y[j]

ValueOrder(x, y) ==
    IF ValueLess(x, y) THEN "LT" ELSE IF ValueLess(y, x) THEN "GT" ELSE "EQ"

(* Two token sequences that agree everywhere but at index k. *)
DiffersOnlyAt(ta, tb, k) ==
    /\ Len(ta) = Len(tb)
    /\ k \in 1..Len(ta)
    /\ \A m \in 1..Len(ta) : m # k => ta[m] = tb[m]

(* A segment sequence read at an index, padded with the default segment. *)
PadAt(v, i) == IF i <= Len(v.parts) THEN v.parts[i] ELSE ZeroSegment

PaddedEqual(a, b) ==
    \A i \in 1..Max(Len(a.parts), Len(b.parts)) : PadAt(a, i) = PadAt(b, i)

(* A base version: all-digit tokens joined by dots. *)
IsBase(s) ==
    /\ \A i \in 1..Len(s) : IsAsciiDigit(s[i]) \/ s[i] = 46
    /\ \A k \in 1..Len(Split(s)) : AllDigits(Split(s)[k])

EndsWith(s, suffix) ==
    /\ Len(s) >= Len(suffix)
    /\ SubSeq(s, Len(s) - Len(suffix) + 1, Len(s)) = suffix

(* s is base-q for the named qualifier q. *)
IsHyphenForm(s, q) ==
    /\ EndsWith(s, <<45>> \o q)
    /\ IsBase(SubSeq(s, 1, Len(s) - Len(q) - 1))

BaseOfForm(s, q) == SubSeq(s, 1, Len(s) - Len(q) - 1)

Count(seq, x) == Cardinality({i \in 1..Len(seq) : seq[i] = x})

IsPermutation(xs, ys) ==
    /\ Len(xs) = Len(ys)
    /\ \A i \in 1..Len(xs) : Count(xs, xs[i]) = Count(ys, xs[i])

Idx == 1..Len(versions)

(* The versions parsed so far, while main collects them; sorting only      *)
(* reorders these same values, so every parsed Version is met here.        *)
Collected == IF pc = "collect" THEN Idx ELSE {}

----------------------------------------------------------------------------
(* C1: Version::cmp is a strict total order over parsed Versions: for all  *)
(* a, b exactly one of a < b, a == b, a > b holds and cmp(a, b) is the     *)
(* reverse of cmp(b, a); and a < b and b < c imply a < c, also for segment *)
(* sequences of different lengths whose longer one ends in defaults.       *)
C1_StrictTotalOrder ==
    \A i, j \in Collected :
        LET a == versions[i]
            b == versions[j]
            less == Lt(a, b)
            equal == Eq(a, b)
            greater == Lt(b, a)
        IN  /\ Cmp(a, b) = Reverse(Cmp(b, a))
            /\ less \/ equal \/ greater
            /\ ~(less /\ equal) /\ ~(less /\ greater) /\ ~(equal /\ greater)
            /\ less => \A k \in Collected :
                           Lt(b, versions[k]) => Lt(a, versions[k])

C1_Witness ==
    \E i, j, k \in Idx :
        LET a == versions[i]
            b == versions[j]
            c == versions[k]
        IN  /\ Lt(a, b) /\ Lt(b, c) /\ Lt(a, c)
            /\ Len(a.parts) < Len(b.parts)
            /\ Len(b.parts) < Len(c.parts)
            /\ c.parts[Len(c.parts)] = ZeroSegment

(* C2: when parsing does not abort, the output is a permutation of the     *)
(* input lines, each kept verbatim, arranged so that consecutive lines are *)
(* non-decreasing under Version::cmp; the six-line scenario is emitted as  *)
(* 1.0-alpha, 1.0-beta, 1.0, 1.2, 1.10, 2.0.                               *)
C2_SortedPermutation ==
    /\ \A i \in 1..Len(output) :
           Count(output, output[i]) <= Count(input, output[i])
    /\ pc = "done" =>
           /\ IsPermutation(output, input)
           /\ \A i \in 1..(Len(output) - 1) :
                  Cmp(Parse(output[i]), Parse(output[i + 1])) # "GT"
    /\ (pc = "done" /\ input = Example) => output = ExampleSorted

C2_Witness ==
    /\ pc = "done"
    /\ input = Example
    /\ output = ExampleSorted
    /\ output # input

(* C3: two versions identical except for one all-digit token compare as    *)
(* the integer values of that token do, whatever the digit counts, and     *)
(* compare equal when the values are equal.                                *)
C3_NumericOrder ==
    \A i, j \in Collected :
        LET ta == Tokens(versions[i].s)
            tb == Tokens(versions[j].s)
        IN  \A k \in 1..Len(ta) :
                (DiffersOnlyAt(ta, tb, k) /\ AllDigits(ta[k]) /\ AllDigits(tb[k]))
                    => Cmp(versions[i], versions[j])
                           = ValueOrder(NumValue(ta[k]), NumValue(tb[k]))

C3_Witness ==
    \E i, j \in Idx :
        LET ta == Tokens(versions[i].s)
            tb == Tokens(versions[j].s)
        IN  \E k \in 1..Len(ta) :
                /\ DiffersOnlyAt(ta, tb, k) /\ AllDigits(ta[k]) /\ AllDigits(tb[k])
                /\ Len(ta) > 1
                /\ Len(ta[k]) < Len(tb[k])
                /\ CmpStr(ta[k], tb[k]) = "GT"
                /\ Cmp(versions[i], versions[j]) = "LT"

(* C4: for a base version B of all-digit tokens joined by dots,            *)
(* B-alpha < B-beta < B-rc < B and B-cr < B-rc under Version::cmp.         *)
C4_PreReleaseOrder ==
    \A i, j \in Collected :
        LET x == versions[i].s
            y == versions[j].s
        IN  /\ \A pq \in {<<Str_alpha, Str_beta>>, <<Str_beta, Str_rc>>,
                          <<Str_cr, Str_rc>>} :
                   (/\ IsHyphenForm(x, pq[1])
                    /\ IsHyphenForm(y, pq[2])
                    /\ BaseOfForm(x, pq[1]) = BaseOfForm(y, pq[2]))
                       => Cmp(versions[i], versions[j]) = "LT"
            /\ (IsHyphenForm(x, Str_rc) /\ y = BaseOfForm(x, Str_rc))
                   => Cmp(versions[i], versions[j]) = "LT"

C4_Witness ==
    \E i, j \in Idx :
        LET x == versions[i].s
            y == versions[j].s
        IN  /\ IsHyphenForm(x, Str_cr)
            /\ IsHyphenForm(y, Str_rc)
            /\ BaseOfForm(x, Str_cr) = BaseOfForm(y, Str_rc)
            /\ Len(Split(BaseOfForm(x, Str_cr))) > 1
            /\ Cmp(versions[i], versions[j]) = "LT"

(* C5: a named qualifier q that follows a hyphen receives its table rank:  *)
(* for an all-digit base B, parse(B-q) contains the segment (rank(q), q).  *)
C5_HyphenQualifierRank ==
    \A i \in Idx :
        \A q \in NamedQualifiers :
            IsHyphenForm(versions[i].s, q)
                => \E k \in 1..Len(versions[i].parts) :
                       versions[i].parts[k] = QualifierSegment(q)

(* C6: of two versions identical except for the qualifier of one token,    *)
(* the one with an unrecognized qualifier compares less than the one with  *)
(* a named qualifier, and both compare less than the one with no qualifier *)
(* at that token.                                                          *)
C6_UnknownRanksLowest ==
    \A i, j \in Idx :
        LET ta == Tokens(versions[i].s)
            tb == Tokens(versions[j].s)
        IN  \A k \in 1..Len(ta) :
                (/\ DiffersOnlyAt(ta, tb, k)
                 /\ CleanSplit(ta[k]) /\ CleanSplit(tb[k])
                 /\ NumOf(ta[k]) = NumOf(tb[k]))
                    => LET qa == QualOf(ta[k])
                           qb == QualOf(tb[k])
                       IN  /\ (qa # <<>> /\ qa \notin NamedQualifiers
                                   /\ qb \in NamedQualifiers)
                                  => Cmp(versions[i], versions[j]) = "LT"
                           /\ (qa # <<>> /\ qb = <<>>)
                                  => Cmp(versions[i], versions[j]) = "LT"

(* C7: when the segments of a and b are equal at every index after padding *)
(* the shorter with default segments, Version::cmp is the comparison of    *)
(* the segment counts; so a == b exactly when the segment sequences have   *)
(* the same length and the same content.                                   *)
C7_LengthTieBreak ==
    \A i, j \in Collected :
        LET a == versions[i]
            b == versions[j]
        IN  /\ PaddedEqual(a, b) =>
                   Cmp(a, b) = IF Len(a.parts) < Len(b.parts) THEN "LT"
                               ELSE IF Len(a.parts) > Len(b.parts) THEN "GT"
                               ELSE "EQ"
            /\ Eq(a, b) <=> a.parts = b.parts

C7_Witness ==
    \E i, j \in Idx :
        LET a == versions[i]
            b == versions[j]
        IN  /\ PaddedEqual(a, b)
            /\ Len(a.parts) < Len(b.parts)
            /\ Cmp(a, b) = "LT"
            /\ ~Eq(a, b)

(* A token of the line has a digit suffix, extracted by the split rule,    *)
(* that does not fit a signed 64-bit integer.                              *)
HasOverflow(line) ==
    \E k \in 1..Len(Tokens(line)) :
        LET t == Tokens(line)[k]
        IN  /\ CleanSplit(t)
            /\ NumOf(t) # <<>>
            /\ ValueLess(I64MaxMag, NumValue(NumOf(t)))

(* C8: parsing fails only by numeric overflow and then fatally: the run    *)
(* aborts with no output line emitted exactly when a line has a token      *)
(* whose extracted digit suffix does not fit an i64; every other line      *)
(* parses into a segment sequence.                                         *)
C8_FailsOnlyOnOverflow ==
    /\ pc = "panicked" =>
           /\ output = <<>>
           /\ Len(versions) < Len(input)
           /\ HasOverflow(input[Len(versions) + 1])
    /\ \A i \in 1..Len(input) :
           (i <= Len(versions) \/ pc \in {"print", "done"})
               => ~HasOverflow(input[i])
    /\ pc = "collect" =>
           \A i \in Idx :
               /\ versions[i].s = input[i]
               /\ Len(versions[i].parts) = 2 * Len(Tokens(input[i]))
    /\ output # <<>> => \A i \in 1..Len(input) : ~HasOverflow(input[i])

C8_Witness ==
    /\ pc = "panicked"
    /\ Len(versions) >= 1
    /\ output = <<>>
    /\ ~HasOverflow(input[1])
    /\ HasOverflow(input[2])

(* C9: an empty token is parsed into two default segments, qualifier       *)
(* (rank 0, empty label) and numeric (rank 0, empty label).                *)
C9_EmptyTokenDefaults ==
    \A i \in Idx :
        \A k \in 1..Len(Tokens(versions[i].s)) :
            Tokens(versions[i].s)[k] = <<>>
                => /\ versions[i].parts[2 * k - 1] = ZeroSegment
                   /\ versions[i].parts[2 * k] = ZeroSegment

(* C10: for every token, a digit-free prefix P followed by digits D up to  *)
(* the end parses to (qualifier of P, or default if P is empty; number of  *)
(* D, or default if D is empty); a token with a non-digit after a digit    *)
(* parses to (qualifier labelled with the whole token, default).           *)
C10_SplitRule ==
    \A i \in Idx :
        \A k \in 1..Len(Tokens(versions[i].s)) :
            LET t == Tokens(versions[i].s)[k]
                qual == versions[i].parts[2 * k - 1]
                num == versions[i].parts[2 * k]
            IN  IF CleanSplit(t)
                THEN /\ qual = IF QualOf(t) = <<>> THEN ZeroSegment
                               ELSE QualifierSegment(QualOf(t))
                     /\ num = IF NumOf(t) = <<>> THEN ZeroSegment
                              ELSE NumberSegment(NumValue(NumOf(t)))
                ELSE /\ qual = QualifierSegment(t)
                     /\ num = ZeroSegment

====
